---- MODULE Spec2Model ----
(***************************************************************************)
(* Model of the textbook generation service (backend.py): the request      *)
(* handler generate_textbook with its chunk accumulation loop, the prompt  *)
(* composer generate_chunked_prompt, the acceptance check and the error    *)
(* boundary of the handler.                                                *)
(*                                                                         *)
(* Strings are modelled run-length encoded.  A text is a sequence of       *)
(* non-empty blocks; a block is                                            *)
(*    lead whitespace characters,                                          *)
(*    n words of wl non-whitespace characters each, separated by sl        *)
(*    whitespace characters,                                               *)
(*    trail whitespace characters.                                         *)
(* str.split() with no argument splits on runs of whitespace and drops     *)
(* empty tokens, so the tokens of a text are its maximal runs of           *)
(* non-whitespace characters; two blocks that meet without whitespace      *)
(* between them share one token.                                           *)
(***************************************************************************)
EXTENDS Integers, Sequences, FiniteSets, TLC

\* ------------------------------------------------------------------ bounds
\* characters per generated word
WordLen == 4
\* length of the whitespace padding a provider chunk may start or end with
MaxPad == 2
\* number of request slots of the service model
NumRequests == 2

\* ------------------------------------------------------- program constants
max_attempts_six == 5 + 1
max_attempts == 5
MinWordCount == 500
MaxWordCount == 20000
ChunkCap == 2000
ExcerptChars == 5000

Requests == 1..NumRequests

\* ------------------------------------------------------------------ strings
Min(a, b) == IF a < b THEN a ELSE b

EmptyStr == << >>

\* whitespace only, k >= 1 characters
Spaces(k) == << [lead |-> k, n |-> 0, wl |-> 0, sl |-> 0, trail |-> 0] >>

\* n >= 1 words, padded by lead / trail whitespace characters
Words(lead, n, trail) ==
    << [lead |-> lead, n |-> n, wl |-> WordLen, sl |-> 1, trail |-> trail] >>

Newline == Spaces(1)

BlockLen(b) ==
    b.lead + b.n * b.wl + (IF b.n > 0 THEN (b.n - 1) * b.sl ELSE 0) + b.trail

RECURSIVE len(_)
len(s) == IF s = << >> THEN 0 ELSE BlockLen(Head(s)) + len(Tail(s))

EndsInWord(b) == b.n > 0 /\ b.trail = 0
StartsWithWord(b) == b.n > 0 /\ b.lead = 0

RECURSIVE SumWords(_)
SumWords(s) == IF s = << >> THEN 0 ELSE Head(s).n + SumWords(Tail(s))

\* len(s.split()): the number of maximal runs of non-whitespace characters
len_split(s) ==
    SumWords(s) - Cardinality({i \in 1..(Len(s) - 1) :
                                  EndsInWord(s[i]) /\ StartsWithWord(s[i + 1])})

\* textbook_content += "\n" + new_content
Append_overwrite(content, new_content) == Newline \o new_content
Append_nonewline(content, new_content) == content \o new_content
AppendChunk(content, new_content) == content \o Newline \o new_content

\* start index of s[-k:] for a string of n characters (k > 0): a negative
\* index counts from the end and is clamped at the start of the string
SliceStart(n, k) == IF n - k < 0 THEN 0 ELSE n - k

\* ------------------------------------------------------------ provider data
\* word counts a returned chunk may have
ChunkWords == {1, 100, 500, 799}

\* the texts the provider may return for one call: the empty string, a
\* whitespace-only string, and word runs with and without padding
Chunks ==
    {EmptyStr, Spaces(MaxPad)}
    \cup {Words(0, n, 0) : n \in ChunkWords}
    \cup {Words(MaxPad, 100, MaxPad)}

\* word_count values submitted by callers (499 and 20001 violate conint)
SubmittedWordCounts == {499, 500, 1000, 2000, 20000, 20001}

\* request bodies: every field at its lowest and at its highest valid
\* value, mid-range bodies, and bodies with one field outside its constraint
LowBody(wc) ==
    [subject_len |-> 1, grade |-> 1, region_len |-> 1, chapters |-> << 1 >>,
     sections_per_chapter |-> 1, prompt_len |-> 10, word_count |-> wc]
HighBody(wc) ==
    [subject_len |-> 50, grade |-> 12, region_len |-> 50, chapters |-> << 50, 50 >>,
     sections_per_chapter |-> 10, prompt_len |-> 400, word_count |-> wc]
MidBody(wc) ==
    [subject_len |-> 7, grade |-> 8, region_len |-> 6, chapters |-> << 9, 12 >>,
     sections_per_chapter |-> 5, prompt_len |-> 40, word_count |-> wc]
BodyOf(wc) ==
    IF wc <= MinWordCount THEN LowBody(wc)
    ELSE IF wc >= MaxWordCount THEN HighBody(wc) ELSE MidBody(wc)
ViolatingBodies ==
    { [MidBody(1000) EXCEPT !.subject_len = 0],
      [MidBody(1000) EXCEPT !.subject_len = 51],
      [MidBody(1000) EXCEPT !.grade = 0],
      [MidBody(1000) EXCEPT !.grade = 13],
      [MidBody(1000) EXCEPT !.region_len = 0],
      [MidBody(1000) EXCEPT !.region_len = 51],
      [MidBody(1000) EXCEPT !.chapters = << 9, 0 >>],
      [MidBody(1000) EXCEPT !.chapters = << 51, 12 >>],
      [MidBody(1000) EXCEPT !.sections_per_chapter = 0],
      [MidBody(1000) EXCEPT !.sections_per_chapter = 11],
      [MidBody(1000) EXCEPT !.prompt_len = 9] }
SubmittedBodies == {BodyOf(wc) : wc \in SubmittedWordCounts} \cup ViolatingBodies

\* ---------------------------------------------------------- prompt composer
EmptyPrompt ==
    [empty |-> TRUE, current_count |-> 0, word_count |-> 0,
     remaining_words |-> 0, requested |-> 0,
     excerpt |-> [marker |-> FALSE, start |-> 0, stop |-> 0]]

\* {current_content[-5000:] if current_content else "No content yet"}
\* as a slice [start, stop) of current_content, or the marker text
Excerpt_uncapped(current_content) ==
    IF current_content # EmptyStr
    THEN [marker |-> FALSE, start |-> 0, stop |-> len(current_content)]
    ELSE [marker |-> TRUE, start |-> 0, stop |-> 0]
Excerpt(current_content) ==
    IF current_content # EmptyStr
    THEN [marker |-> FALSE,
          start |-> SliceStart(len(current_content), ExcerptChars),
          stop |-> len(current_content)]
    ELSE [marker |-> TRUE, start |-> 0, stop |-> 0]

generate_chunked_prompt_max(input, current_content, current_count) ==
    LET remaining_words == input.word_count - current_count IN
    IF remaining_words <= 0
    THEN << EmptyPrompt, current_count >>
    ELSE << [empty |-> FALSE, current_count |-> current_count,
             word_count |-> input.word_count,
             remaining_words |-> remaining_words,
             requested |-> IF ChunkCap > remaining_words
                           THEN ChunkCap ELSE remaining_words,
             excerpt |-> Excerpt(current_content)],
            remaining_words >>
\* returns << chunk_prompt, second element of the tuple >>
generate_chunked_prompt(input, current_content, current_count) ==
    LET remaining_words == input.word_count - current_count IN
    IF remaining_words <= 0
    THEN << EmptyPrompt, current_count >>
    ELSE << [empty |-> FALSE, current_count |-> current_count,
             word_count |-> input.word_count,
             remaining_words |-> remaining_words,
             requested |-> Min(ChunkCap, remaining_words),
             excerpt |-> Excerpt(current_content)],
            remaining_words >>

\* ------------------------------------------------------------ loop control
\* the target test of the while condition and of the break
TargetReached_strict(count, target) == count > target
TargetReached(count, target) == count >= target

\* while len(textbook_content.split()) < input.word_count and attempts < max_attempts
LoopCond_early(content, input, att) ==
    ~TargetReached(len_split(content), input.word_count) /\ att + 1 < max_attempts
LoopCond(content, input, att) ==
    ~TargetReached(len_split(content), input.word_count) /\ att < max_attempts

\* final_word_count < 0.8 * input.word_count.  0.8 is the double
\* (4/5)(1 + 2^-54); for word_count <= 20000 the rounded product equals
\* 4*word_count/5 when that is an integer and lies strictly between its
\* integer neighbours otherwise, so the float comparison is the comparison
\* of 5*final_word_count with 4*word_count.
AcceptanceFails_swapped(final, target) == 5 * target < 4 * final
AcceptanceFails_inclusive(final, target) == 5 * final <= 4 * target
AcceptanceFails(final, target) == 5 * final < 4 * target

\* ------------------------------------------------------------------- state
VARIABLES
    pc,                \* position of each request's handler
    input,             \* TextbookInput of the request
    textbook_content,  \* accumulated text
    attempts,          \* loop counter
    prompt,            \* last composed chunk prompt
    remaining_words,   \* second element returned by generate_chunked_prompt
    messages,          \* system message of the last provider call
    calls,             \* mistral_client.chat invocations
    renders,           \* generate_pdf invocations
    final_word_count,  \* count taken after the loop
    raised,            \* exception propagating to the except clause
    response,          \* HTTP response of the request
    log,               \* logger.info records of the loop
    unit,              \* a direct call of generate_chunked_prompt
    body,              \* JSON body posted by the caller
    returned,          \* texts returned by the request's provider calls, in call order
    ui                 \* what the form page shows for the response

vars == << pc, input, textbook_content, attempts, prompt, remaining_words,
           messages, calls, renders, final_word_count, raised, response,
           log, unit, body, returned, ui >>

NoInput == [word_count |-> 0]
NoMessages == [target |-> 0, progress |-> 0]
NoException == [origin |-> "none", status_code |-> 0, requested |-> 0, actual |-> 0]
NoDetail == [text |-> "none", requested |-> 0, actual |-> 0]
NoPdf == [rendered |-> FALSE, chars |-> 0]
NoResponse ==
    [status_code |-> 0, detail |-> NoDetail, textbook_content |-> EmptyStr,
     word_count |-> 0, pdf |-> NoPdf]
NoUi == [shown |-> "none", download |-> FALSE]
NoUnit ==
    [called |-> FALSE, input |-> NoInput, current_content |-> EmptyStr,
     current_count |-> 0, prompt |-> EmptyPrompt, second |-> 0]

Idle ==
    /\ pc = [r \in Requests |-> "idle"]
    /\ input = [r \in Requests |-> NoInput]
    /\ textbook_content = [r \in Requests |-> EmptyStr]
    /\ attempts = [r \in Requests |-> 0]
    /\ prompt = [r \in Requests |-> EmptyPrompt]
    /\ remaining_words = [r \in Requests |-> 0]
    /\ messages = [r \in Requests |-> NoMessages]
    /\ calls = [r \in Requests |-> 0]
    /\ renders = [r \in Requests |-> 0]
    /\ final_word_count = [r \in Requests |-> 0]
    /\ raised = [r \in Requests |-> NoException]
    /\ response = [r \in Requests |-> NoResponse]
    /\ log = [r \in Requests |-> << >>]
    /\ body = [r \in Requests |-> NoInput]
    /\ returned = [r \in Requests |-> << >>]
    /\ ui = [r \in Requests |-> NoUi]

Init == Idle /\ unit = NoUnit

\* ----------------------------------------------------------------- handler
ValidInput_noupper(wc) == wc >= MinWordCount
ValidInput(wc) == wc >= MinWordCount /\ wc <= MaxWordCount

\* the constraints of TextbookInput; strings are given by their length,
\* chapters by the lengths of its titles
ValidBody(b) ==
    /\ b.subject_len >= 1 /\ b.subject_len <= 50
    /\ b.grade >= 1 /\ b.grade <= 12
    /\ b.region_len >= 1 /\ b.region_len <= 50
    /\ \A i \in 1..Len(b.chapters) : b.chapters[i] >= 1 /\ b.chapters[i] <= 50
    /\ b.sections_per_chapter >= 1 /\ b.sections_per_chapter <= 10
    /\ b.prompt_len >= 10
    /\ ValidInput(b.word_count)

\* POST /generate-textbook with a body that violates TextbookInput: FastAPI
\* answers 422 before the handler body runs
RejectInvalid(r, b) ==
    /\ pc[r] = "idle"
    /\ ~ValidBody(b)
    /\ body' = [body EXCEPT ![r] = b]
    /\ pc' = [pc EXCEPT ![r] = "done"]
    /\ response' = [response EXCEPT ![r] =
                       [NoResponse EXCEPT !.status_code = 422,
                                          !.detail = [NoDetail EXCEPT !.text = "validation"]]]
    /\ UNCHANGED << input, textbook_content, attempts, prompt, remaining_words,
                    messages, calls, renders, final_word_count, raised, log,
                    unit, returned, ui >>

\* the handler is entered: textbook_content = "", attempts = 0
Receive(r, b) ==
    /\ pc[r] = "idle"
    /\ ValidBody(b)
    /\ body' = [body EXCEPT ![r] = b]
    /\ input' = [input EXCEPT ![r] = b]
    /\ textbook_content' = [textbook_content EXCEPT ![r] = EmptyStr]
    /\ attempts' = [attempts EXCEPT ![r] = 0]
    /\ pc' = [pc EXCEPT ![r] = "loop"]
    /\ UNCHANGED << prompt, remaining_words, messages, calls, renders,
                    final_word_count, raised, response, log, unit, returned, ui >>

\* ChatMessage(role="system", ...): the target and the current progress
SystemMessage_chars(inp, content) ==
    [target |-> inp.word_count, progress |-> len(content)]
SystemMessage(inp, content) ==
    [target |-> inp.word_count, progress |-> len_split(content)]

\* the while condition holds: attempts += 1, the prompt and the messages
\* of the next provider call are built
Compose(r) ==
    /\ pc[r] = "loop"
    /\ LoopCond(textbook_content[r], input[r], attempts[r])
    /\ attempts' = [attempts EXCEPT ![r] = @ + 1]
    /\ LET composed == generate_chunked_prompt(input[r], textbook_content[r],
                                               len_split(textbook_content[r]))
       IN /\ prompt' = [prompt EXCEPT ![r] = composed[1]]
          /\ remaining_words' = [remaining_words EXCEPT ![r] = composed[2]]
    /\ messages' = [messages EXCEPT ![r] =
                       SystemMessage(input[r], textbook_content[r])]
    /\ pc' = [pc EXCEPT ![r] = "call"]
    /\ UNCHANGED << input, textbook_content, calls, renders, final_word_count,
                    raised, response, log, unit, body, returned, ui >>

\* the while condition fails
LoopExit(r) ==
    /\ pc[r] = "loop"
    /\ ~LoopCond(textbook_content[r], input[r], attempts[r])
    /\ pc' = [pc EXCEPT ![r] = "check"]
    /\ UNCHANGED << input, textbook_content, attempts, prompt, remaining_words,
                    messages, calls, renders, final_word_count, raised,
                    response, log, unit, body, returned, ui >>

\* mistral_client.chat returns new_content: it is appended, counted and
\* logged, and the loop breaks when the target is reached
ProviderReturns_shared(r, new_content) ==
    /\ pc[r] = "call"
    /\ calls' = [calls EXCEPT ![r] = @ + 1]
    /\ returned' = [returned EXCEPT ![r] = Append(@, new_content)]
    /\ LET content == AppendChunk(textbook_content[r], new_content)
           current_count == len_split(content)
       IN /\ textbook_content' =
                [q \in Requests |->
                    IF q = r \/ pc[q] \in {"loop", "call"}
                    THEN AppendChunk(textbook_content[q], new_content)
                    ELSE textbook_content[q]]
          /\ log' = [log EXCEPT ![r] =
                        Append(@, [attempt |-> attempts[r],
                                   added |-> len_split(new_content),
                                   total |-> current_count])]
          /\ pc' = [pc EXCEPT ![r] =
                       IF TargetReached(current_count, input[r].word_count)
                       THEN "check" ELSE "loop"]
    /\ UNCHANGED << input, attempts, prompt, remaining_words, messages, renders,
                    final_word_count, raised, response, unit, body, ui >>
ProviderReturns(r, new_content) ==
    /\ pc[r] = "call"
    /\ calls' = [calls EXCEPT ![r] = @ + 1]
    /\ returned' = [returned EXCEPT ![r] = Append(@, new_content)]
    /\ LET content == AppendChunk(textbook_content[r], new_content)
           current_count == len_split(content)
       IN /\ textbook_content' = [textbook_content EXCEPT ![r] = content]
          /\ log' = [log EXCEPT ![r] =
                        Append(@, [attempt |-> attempts[r],
                                   added |-> len_split(new_content),
                                   total |-> current_count])]
          /\ pc' = [pc EXCEPT ![r] =
                       IF TargetReached(current_count, input[r].word_count)
                       THEN "check" ELSE "loop"]
    /\ UNCHANGED << input, attempts, prompt, remaining_words, messages, renders,
                    final_word_count, raised, response, unit, body, ui >>

\* mistral_client.chat raises, or its response has no usable message
\* content: the exception leaves the loop for the except clause
ProviderFails_retry(r) ==
    /\ pc[r] = "call"
    /\ calls' = [calls EXCEPT ![r] = @ + 1]
    /\ raised' = [raised EXCEPT ![r] = [NoException EXCEPT !.origin = "provider"]]
    /\ pc' = [pc EXCEPT ![r] = "loop"]
    /\ UNCHANGED << input, textbook_content, attempts, prompt, remaining_words,
                    messages, renders, final_word_count, response, log, unit, body, returned, ui >>
ProviderFails(r) ==
    /\ pc[r] = "call"
    /\ calls' = [calls EXCEPT ![r] = @ + 1]
    /\ raised' = [raised EXCEPT ![r] = [NoException EXCEPT !.origin = "provider"]]
    /\ pc' = [pc EXCEPT ![r] = "except"]
    /\ UNCHANGED << input, textbook_content, attempts, prompt, remaining_words,
                    messages, renders, final_word_count, response, log, unit, body, returned, ui >>

\* final word count verification fails: raise HTTPException(status_code=400)
AcceptanceReject(r) ==
    /\ pc[r] = "check"
    /\ LET final == len_split(textbook_content[r]) IN
        /\ AcceptanceFails(final, input[r].word_count)
        /\ final_word_count' = [final_word_count EXCEPT ![r] = final]
        /\ raised' = [raised EXCEPT ![r] =
                         [origin |-> "acceptance", status_code |-> 400,
                          requested |-> input[r].word_count, actual |-> final]]
    /\ pc' = [pc EXCEPT ![r] = "except"]
    /\ UNCHANGED << input, textbook_content, attempts, prompt, remaining_words,
                    messages, calls, renders, response, log, unit, body, returned, ui >>

\* final word count verification passes
AcceptancePass(r) ==
    /\ pc[r] = "check"
    /\ LET final == len_split(textbook_content[r]) IN
        /\ ~AcceptanceFails(final, input[r].word_count)
        /\ final_word_count' = [final_word_count EXCEPT ![r] = final]
    /\ pc' = [pc EXCEPT ![r] = "render"]
    /\ UNCHANGED << input, textbook_content, attempts, prompt, remaining_words,
                    messages, calls, renders, raised, response, log, unit, body, returned, ui >>

\* generate_pdf: the text, with characters outside latin-1 replaced, in a
\* one-flow document, base64 encoded
generate_pdf(content) == [rendered |-> TRUE, chars |-> len(content)]

\* return {"textbook_content": ..., "word_count": ..., "pdf": ...}
SuccessBody_first(content, final, pdf) ==
    [status_code |-> 200, detail |-> NoDetail,
     textbook_content |-> SubSeq(content, 1, Min(Len(content), 2)),
     word_count |-> final, pdf |-> pdf]
SuccessBody(content, final, pdf) ==
    [status_code |-> 200, detail |-> NoDetail, textbook_content |-> content,
     word_count |-> final, pdf |-> pdf]

\* the PDF is generated and the handler returns the success body
RenderAndReturn(r) ==
    /\ pc[r] = "render"
    /\ renders' = [renders EXCEPT ![r] = @ + 1]
    /\ response' = [response EXCEPT ![r] =
                       SuccessBody(textbook_content[r], final_word_count[r],
                                   generate_pdf(textbook_content[r]))]
    /\ pc' = [pc EXCEPT ![r] = "done"]
    /\ UNCHANGED << input, textbook_content, attempts, prompt, remaining_words,
                    messages, calls, final_word_count, raised, log, unit, body, returned, ui >>

\* str(e) of the caught exception.  A provider exception prints its
\* message.  The HTTPException was built from keyword arguments only, so
\* its args tuple is empty: str(e) is "" where the class inherits
\* Exception.__str__, and "400: <detail>" where the installed Starlette
\* defines __str__; the repository pins no version.
StrForms(e) ==
    IF e.origin = "acceptance"
    THEN { NoDetail,
           [text |-> "counts", requested |-> e.requested, actual |-> e.actual] }
    ELSE { [NoDetail EXCEPT !.text = "provider"] }

\* except Exception as e: every exception raised in the try block, the
\* HTTPException of the acceptance check included, is logged and replaced by
\* HTTPException(status_code=500, detail=str(e))
ExceptClause(r) ==
    /\ pc[r] = "except"
    /\ \E d \in StrForms(raised[r]) :
          response' = [response EXCEPT ![r] =
                          [NoResponse EXCEPT !.status_code = 500, !.detail = d]]
    /\ pc' = [pc EXCEPT ![r] = "done"]
    /\ UNCHANGED << input, textbook_content, attempts, prompt, remaining_words,
                    messages, calls, renders, final_word_count, raised, log, unit, body, returned, ui >>

\* ------------------------------------------------------------- form page
\* limits of the form widgets (frontend.py)
FormMinWordCount == 1000
FormMinSections == 2

\* bodies the form can post: the number inputs clamp word_count and
\* sections, the grade is picked from 1..12, and the four text fields
\* must be non-empty; text lengths have no upper limit in the form and
\* single chapter titles may be empty
FormCanSend(b) ==
    /\ b.subject_len >= 1 /\ b.region_len >= 1 /\ b.prompt_len >= 1
    /\ Len(b.chapters) >= 1
    /\ b.grade >= 1 /\ b.grade <= 12
    /\ b.word_count >= FormMinWordCount /\ b.word_count <= MaxWordCount
    /\ b.sections_per_chapter >= FormMinSections /\ b.sections_per_chapter <= 10

\* actual_words >= 0.9 * word_count.  As for 0.8, the rounded float product
\* compares with an integer as 9*word_count/10 does for word_count <= 20000.
UiSuccess_eighty(actual_words, word_count) == 10 * actual_words >= 8 * word_count
UiSuccess(actual_words, word_count) == 10 * actual_words >= 9 * word_count

\* the page shown for the response of requests.post
UiPage(b, resp) ==
    IF resp.status_code < 400
    THEN IF UiSuccess(resp.word_count, b.word_count)
         THEN [shown |-> "success", download |-> TRUE]
         ELSE [shown |-> "warning", download |-> FALSE]
    ELSE [shown |-> "error", download |-> FALSE]

\* the form page receives the response and renders its result section
UiShow(r) ==
    /\ pc[r] = "done"
    /\ ui[r].shown = "none"
    /\ FormCanSend(body[r])
    /\ ui' = [ui EXCEPT ![r] = UiPage(body[r], response[r])]
    /\ UNCHANGED << pc, input, textbook_content, attempts, prompt,
                    remaining_words, messages, calls, renders,
                    final_word_count, raised, response, log, unit, body,
                    returned >>

\* one request is served
Served == {1}

Next ==
    \E r \in Served :
        \/ \E b \in SubmittedBodies : RejectInvalid(r, b)
        \/ \E b \in SubmittedBodies : Receive(r, b)
        \/ Compose(r)
        \/ LoopExit(r)
        \/ \E new_content \in Chunks : ProviderReturns(r, new_content)
        \/ ProviderFails(r)
        \/ AcceptanceReject(r)
        \/ AcceptancePass(r)
        \/ RenderAndReturn(r)
        \/ ExceptClause(r)
        \/ UiShow(r)

Spec == Init /\ [][Next]_vars

\* the handler steps run to completion and every provider call returns or
\* raises (the client has a request timeout)
FairSpec == Spec /\ WF_vars(Next)

\* ------------------------------------------------- requests in flight
\* every request slot is served and the steps of the handlers interleave
\* (worker processes or threads; each handler has local variables only and
\* the module-level client, model name and logger are never assigned)
ConcChunks == {EmptyStr, Words(0, 799, 0)}
ConcBodies == {BodyOf(499), BodyOf(500), BodyOf(600)}

NextConc ==
    \E r \in Requests :
        \/ \E b \in ConcBodies : RejectInvalid(r, b)
        \/ \E b \in ConcBodies : Receive(r, b)
        \/ Compose(r)
        \/ LoopExit(r)
        \/ \E new_content \in ConcChunks : ProviderReturns(r, new_content)
        \/ ProviderFails(r)
        \/ AcceptanceReject(r)
        \/ AcceptancePass(r)
        \/ RenderAndReturn(r)
        \/ ExceptClause(r)

SpecConc == Init /\ [][NextConc]_vars

\* ------------------------------------------- direct calls of the composer
UnitWordCounts == {500, 1000, 5000, 20000}
UnitCounts == {0, 499, 500, 501, 4200, 4999, 5000, 19999, 20000, 25000}
UnitContents ==
    { EmptyStr,
      Newline,
      Newline \o Words(0, 100, 0),
      Words(0, ExcerptChars \div (WordLen + 1), 0),
      Newline \o Words(0, ExcerptChars \div (WordLen + 1), 0),
      Newline \o Words(0, ExcerptChars \div (WordLen + 1), MaxPad),
      Newline \o Words(0, 2000, 0) \o Newline \o Words(MaxPad, 2000, MaxPad) }

InitPrompt ==
    /\ Idle
    /\ unit \in [called : {FALSE},
                 input : {[word_count |-> w] : w \in UnitWordCounts},
                 current_content : UnitContents,
                 current_count : UnitCounts,
                 prompt : {EmptyPrompt},
                 second : {0}]

\* prompt, remaining_words = generate_chunked_prompt(input, content, count)
UnitCall ==
    /\ ~unit.called
    /\ LET composed == generate_chunked_prompt(unit.input, unit.current_content,
                                               unit.current_count)
       IN unit' = [unit EXCEPT !.called = TRUE,
                               !.prompt = composed[1],
                               !.second = composed[2]]
    /\ UNCHANGED << pc, input, textbook_content, attempts, prompt,
                    remaining_words, messages, calls, renders,
                    final_word_count, raised, response, log, body,
                    returned, ui >>

NextPrompt == UnitCall

SpecPrompt == InitPrompt /\ [][NextPrompt]_vars

\* ================================================================== claims
Finished(r) == pc[r] = "done" /\ response[r].status_code # 422
Target(r) == input[r].word_count
Words_(r) == len_split(textbook_content[r])

\* C1: a request makes at most 5 provider calls, whatever the provider
\* returns, and a request that entered the loop reaches its response.
C1_AtMostFiveCalls ==
    /\ [](\A r \in Requests :
            /\ calls[r] <= 5
            /\ attempts[r] <= 5
            /\ (pc[r] = "call" => calls[r] < 5))
    /\ \A r \in Requests : (pc[r] = "loop") ~> (pc[r] = "done")

\* five calls that all returned text without a single word
C1_Witness ==
    \E r \in Requests :
        /\ Finished(r) /\ calls[r] = 5 /\ Len(log[r]) = 5
        /\ Words_(r) = 0

\* C2: without a provider error the request ends in the acceptance failure
\* exactly when 5 * final < 4 * target, and in the success response otherwise.
C2_AcceptanceThreshold ==
    \A r \in Requests :
        (Finished(r) /\ raised[r].origin # "provider") =>
            IF 5 * Words_(r) < 4 * Target(r)
            THEN raised[r].origin = "acceptance" /\ response[r].status_code # 200
            ELSE raised[r].origin = "none" /\ response[r].status_code = 200

\* target 1000, final count 800: success
C2_Witness ==
    \E r \in Requests :
        /\ Finished(r) /\ Target(r) = 1000 /\ Words_(r) = 800
        /\ response[r].status_code = 200

\* C3: a chunk that brings the count to the target is the last provider
\* call of the request; if it is the first chunk, there is exactly one call.
C3_EarlyStop ==
    \A r \in Requests :
        \A i \in 1..Len(log[r]) :
            log[r][i].total >= Target(r) => (i = Len(log[r]) /\ calls[r] = i)

\* the first chunk alone reached the target, and the request is answered
C3_Witness ==
    \E r \in Requests :
        /\ Finished(r) /\ calls[r] = 1
        /\ Len(log[r]) = 1 /\ log[r][1].total >= Target(r)

\* C4: the acceptance failure reaches the caller with a status code other
\* than the generic 500 and with the requested and the actual word count.
C4_AcceptanceErrorDistinct ==
    \A r \in Requests :
        (pc[r] = "done" /\ raised[r].origin = "acceptance") =>
            /\ response[r].status_code # 500
            /\ response[r].detail.text = "counts"
            /\ response[r].detail.requested = Target(r)
            /\ response[r].detail.actual = Words_(r)

\* C5: every success response has a word count within 10% of the target.
C5_WithinTenPercent ==
    \A r \in Requests :
        response[r].status_code = 200 =>
            /\ 10 * response[r].word_count >= 9 * Target(r)
            /\ 10 * response[r].word_count <= 11 * Target(r)

\* C6: composing at or above the target returns the empty prompt and the
\* non-positive value word_count - current_count.
C6_NoOpComposition ==
    (unit.called /\ unit.current_count >= unit.input.word_count) =>
        /\ unit.prompt.empty
        /\ unit.second <= 0
        /\ unit.second = unit.input.word_count - unit.current_count

\* C7: below the target the prompt requests min(2000, remaining) words and
\* the call reports remaining = word_count - current_count.
C7_PerChunkCap ==
    (unit.called /\ unit.current_count < unit.input.word_count) =>
        LET remaining == unit.input.word_count - unit.current_count IN
        /\ ~unit.prompt.empty
        /\ unit.prompt.requested = (IF remaining > 2000 THEN 2000 ELSE remaining)
        /\ unit.prompt.requested >= 1
        /\ unit.second = remaining

\* target 5000 with 4200 words written: 800 words are requested
C7_Witness ==
    /\ unit.called
    /\ unit.input.word_count = 5000 /\ unit.current_count = 4200
    /\ unit.prompt.requested = 800

\* C8: after a provider call failed there is no further provider call, no
\* rendering, and the request is answered with an error.
C8_ProviderFailureFatal ==
    \A r \in Requests :
        raised[r].origin = "provider" =>
            /\ pc[r] \in {"except", "done"}
            /\ calls[r] = Len(log[r]) + 1
            /\ renders[r] = 0
            /\ pc[r] = "done" =>
                  /\ response[r].status_code = 500
                  /\ ~response[r].pdf.rendered

\* a call failed when the text already passed the acceptance threshold
C8_Witness ==
    \E r \in Requests :
        /\ pc[r] = "done" /\ raised[r].origin = "provider"
        /\ Len(log[r]) >= 1
        /\ 5 * Words_(r) >= 4 * Target(r)
        /\ response[r].status_code = 500

\* C9: no step lowers the word count of the accumulated text.
C9_MonotonicWordCount ==
    [][\A r \in Requests :
          len_split(textbook_content'[r]) >= len_split(textbook_content[r])]_vars

\* an empty or whitespace-only chunk was appended to text that has words
C9_Witness ==
    \E r \in Requests :
        \E i \in 2..Len(log[r]) :
            /\ log[r][i].added = 0
            /\ log[r][i - 1].total > 0
            /\ log[r][i].total = log[r][i - 1].total

\* C10: the excerpt of a composed prompt is the last min(5000, len) characters
\* of the accumulated text, and the marker when the text is empty.
C10_ExcerptBound ==
    (unit.called /\ ~unit.prompt.empty) =>
        LET e == unit.prompt.excerpt
            n == len(unit.current_content)
        IN IF n = 0
           THEN e.marker
           ELSE /\ ~e.marker
                /\ e.stop = n
                /\ e.stop - e.start = (IF n > 5000 THEN 5000 ELSE n)
                /\ e.start >= 0

\* a text longer than 5000 characters was cut to its last 5000
C10_Witness ==
    /\ unit.called /\ ~unit.prompt.empty
    /\ len(unit.current_content) > 5000
    /\ unit.prompt.excerpt.stop - unit.prompt.excerpt.start = 5000


\* every chunk in call order, each prefixed by a newline
RECURSIVE Joined(_)
Joined(cs) ==
    IF cs = << >> THEN EmptyStr
    ELSE Joined(SubSeq(cs, 1, Len(cs) - 1)) \o Newline \o cs[Len(cs)]

\* sum of the token counts of the single chunks
RECURSIVE SumSplit(_)
SumSplit(cs) ==
    IF cs = << >> THEN 0 ELSE len_split(Head(cs)) + SumSplit(Tail(cs))

\* sum of the character counts of the chunks, one newline each
RECURSIVE SumChars(_)
SumChars(cs) ==
    IF cs = << >> THEN 0 ELSE 1 + len(Head(cs)) + SumChars(Tail(cs))

\* C11: the success body carries the whole accumulated text, every returned
\* chunk in call order behind a newline, untruncated, and word_count is the
\* token count of exactly that text.
C11_FullTextReturned ==
    \A r \in Requests :
        response[r].status_code = 200 =>
            /\ response[r].textbook_content = Joined(returned[r])
            /\ len(response[r].textbook_content) = SumChars(returned[r])
            /\ response[r].word_count = len_split(response[r].textbook_content)

\* a success of several chunks that overshoots the target
C11_Witness ==
    \E r \in Requests :
        /\ response[r].status_code = 200
        /\ Len(returned[r]) >= 2
        /\ response[r].word_count > Target(r)

\* C12: generate_pdf runs at most once, only after the acceptance check
\* passed; after a failed check it never runs and the response has neither
\* a document nor the partial text.
C12_NoRenderOnReject ==
    \A r \in Requests :
        /\ renders[r] <= 1
        /\ renders[r] = 1 =>
              /\ pc[r] = "done" /\ raised[r].origin = "none"
              /\ 5 * Words_(r) >= 4 * Target(r)
        /\ raised[r].origin = "acceptance" =>
              /\ renders[r] = 0
              /\ ~response[r].pdf.rendered
              /\ response[r].textbook_content = EmptyStr
              /\ response[r].status_code # 200

\* a rejected request that had accumulated some text
C12_Witness ==
    \E r \in Requests :
        /\ pc[r] = "done" /\ raised[r].origin = "acceptance"
        /\ Words_(r) > 0 /\ renders[r] = 0

\* the field constraints as the data model states them
FieldsValid(b) ==
    /\ b.subject_len \in 1..50
    /\ b.grade \in 1..12
    /\ b.region_len \in 1..50
    /\ \A i \in 1..Len(b.chapters) : b.chapters[i] \in 1..50
    /\ b.sections_per_chapter \in 1..10
    /\ b.prompt_len >= 10
    /\ b.word_count \in 500..20000

\* C13: a body with a field outside its constraint is answered 422 before
\* the loop starts: no provider call, no rendering.
C13_ValidationFirst ==
    \A r \in Requests :
        (pc[r] # "idle" /\ ~FieldsValid(body[r])) =>
            /\ pc[r] = "done"
            /\ response[r].status_code = 422
            /\ calls[r] = 0 /\ renders[r] = 0 /\ attempts[r] = 0
            /\ log[r] = << >> /\ textbook_content[r] = EmptyStr

\* a body whose only fault is an empty chapter title was rejected
C13_Witness ==
    \E r \in Requests :
        /\ pc[r] = "done" /\ response[r].status_code = 422
        /\ \E i \in 1..Len(body[r].chapters) : body[r].chapters[i] = 0
        /\ body[r].word_count \in 500..20000

\* C14: a run without provider error that ends below the target made
\* exactly 5 calls, and its outcome is the 80% comparison alone.
C14_BudgetExhausted ==
    \A r \in Requests :
        (Finished(r) /\ raised[r].origin # "provider" /\ Words_(r) < Target(r)) =>
            /\ calls[r] = 5 /\ attempts[r] = 5 /\ Len(returned[r]) = 5
            /\ (response[r].status_code = 200) <=> (5 * Words_(r) >= 4 * Target(r))
            /\ (raised[r].origin = "acceptance") <=> (5 * Words_(r) < 4 * Target(r))

\* target 2000, 100 words per call: 5 calls, 500 words, rejected
C14_Witness ==
    \E r \in Requests :
        /\ Finished(r) /\ Target(r) = 2000
        /\ Len(log[r]) = 5 /\ \A i \in 1..5 : log[r][i].added = 100
        /\ Words_(r) = 500 /\ calls[r] = 5
        /\ raised[r].origin = "acceptance"

\* C15: a provider call is only pending while the count is below the
\* target; its prompt is not the empty prompt and asks for 1..2000 words.
C15_CallsBelowTarget ==
    \A r \in Requests :
        pc[r] = "call" =>
            /\ Words_(r) < Target(r)
            /\ ~prompt[r].empty
            /\ prompt[r].requested \in 1..2000
            /\ remaining_words[r] = Target(r) - Words_(r)

\* the fifth call of a request that is a few words short of its target
C15_Witness ==
    \E r \in Requests :
        /\ pc[r] = "call" /\ attempts[r] = 5
        /\ Words_(r) > 0
        /\ prompt[r].requested = Target(r) - Words_(r)
        /\ prompt[r].requested < 2000

\* C16: when the k-th call is pending, the k-1 earlier calls have returned
\* and are appended, and the progress in the system message and in the
\* chunk prompt is the token count of those k-1 chunks.
C16_SequentialCalls ==
    \A r \in Requests :
        pc[r] = "call" =>
            /\ calls[r] = attempts[r] - 1
            /\ Len(returned[r]) = calls[r]
            /\ textbook_content[r] = Joined(returned[r])
            /\ messages[r].progress = len_split(Joined(returned[r]))
            /\ prompt[r].current_count = len_split(Joined(returned[r]))
            /\ messages[r].target = Target(r)

\* the third call or a later one, with words already written
C16_Witness ==
    \E r \in Requests :
        /\ pc[r] = "call" /\ calls[r] >= 2
        /\ messages[r].progress > 0
        /\ messages[r].progress = log[r][Len(log[r])].total

\* C17: the count of the accumulated text is the sum of the counts of the
\* appended chunks: the newline neither merges nor adds a token.
C17_CountIsSum ==
    \A r \in Requests :
        /\ Words_(r) = SumSplit(returned[r])
        /\ \A i \in 1..Len(log[r]) :
              log[r][i].total = SumSplit(SubSeq(returned[r], 1, i))

\* two chunks that start and end with a word: 500 + 799 = 1299
C17_Witness ==
    \E r \in Requests :
        /\ returned[r] = << Words(0, 500, 0), Words(0, 799, 0) >>
        /\ Words_(r) = 1299

\* C19: the page shows success with the download exactly for a 200 response
\* whose word_count is at least 90% of the requested one; a 200 response
\* below 90% is a warning without download.
C19_UiThreshold ==
    \A r \in Requests :
        ui[r].shown # "none" =>
            /\ (ui[r].shown = "success") <=>
                  (/\ response[r].status_code = 200
                   /\ 10 * response[r].word_count >= 9 * body[r].word_count)
            /\ ui[r].download <=> (ui[r].shown = "success")
            /\ (/\ response[r].status_code = 200
                /\ 10 * response[r].word_count < 9 * body[r].word_count)
                  => ui[r].shown = "warning"

\* the service accepted a text between 80% and 90%; the page warns
C19_Witness ==
    \E r \in Requests :
        /\ response[r].status_code = 200
        /\ 5 * response[r].word_count >= 4 * body[r].word_count
        /\ 10 * response[r].word_count < 9 * body[r].word_count
        /\ ui[r].shown = "warning" /\ ~ui[r].download


\* everything the service holds for request r
Local(r) ==
    << pc[r], input[r], textbook_content[r], attempts[r], prompt[r],
       remaining_words[r], messages[r], calls[r], renders[r],
       final_word_count[r], raised[r], response[r], log[r], body[r],
       returned[r] >>

\* the state of request r as its own body and the answers to its own
\* provider calls determine it
OwnRun(r) ==
    pc[r] # "idle" =>
        IF ~FieldsValid(body[r])
        THEN response[r].status_code = 422 /\ textbook_content[r] = EmptyStr
        ELSE /\ input[r] = body[r]
             /\ textbook_content[r] = Joined(returned[r])
             /\ calls[r] = Len(returned[r])
                             + (IF raised[r].origin = "provider" THEN 1 ELSE 0)
             /\ attempts[r] \in {calls[r], calls[r] + 1}
             /\ Len(log[r]) = Len(returned[r])
             /\ \A i \in 1..Len(log[r]) :
                   log[r][i].total = SumSplit(SubSeq(returned[r], 1, i))
             /\ pc[r] = "done" =>
                   IF raised[r].origin = "provider"
                      \/ 5 * SumSplit(returned[r]) < 4 * body[r].word_count
                   THEN response[r].status_code = 500
                   ELSE /\ response[r].status_code = 200
                        /\ response[r].textbook_content = Joined(returned[r])
                        /\ response[r].word_count = SumSplit(returned[r])

\* C18: with interleaved requests, each request's text, counters and
\* outcome follow from its own body and the answers to its own provider
\* calls, and a step of one request changes nothing of another request.
C18_RequestIsolation ==
    /\ [](\A r \in Requests : OwnRun(r))
    /\ [][\A r \in Requests :
             Local(r)' # Local(r) =>
                 \A q \in Requests \ {r} : Local(q)' = Local(q)]_vars

\* two requests with different targets in flight after at least one answer
\* each: one still calls with no word written, the other has its words
C18_Witness ==
    \E r \in Requests : \E q \in Requests \ {r} :
        /\ pc[r] = "call" /\ attempts[r] >= 2 /\ Words_(r) = 0
        /\ pc[q] = "check" /\ Len(returned[q]) >= 2 /\ Words_(q) > 0
        /\ Target(r) # Target(q)

====
